---- MODULE Spec2Model ----
(***************************************************************************)
(* remix-auth: the Authenticator of src/src/authenticator.ts.              *)
(*                                                                         *)
(* State: the Authenticator's sessionKey and strategies map, the session   *)
(* storage it was constructed with, the requests being handled and, per    *)
(* request, the authenticate / isAuthenticated call in flight on it.       *)
(* JavaScript values are strings; undefined and null are the two marked    *)
(* values below, and "" is the falsy string.                               *)
(***************************************************************************)
EXTENDS Naturals, FiniteSets, Sequences, TLC

Undefined == "<undefined>"
Null == "<null>"

\* JavaScript ToBoolean on the values of this model.
Truthy(v) == v \notin {Undefined, Null, ""}

\* a ?? b
Nullish(a, b) == IF a \in {Undefined, Null} THEN b ELSE a

\* a || b
OrElse(a, b) == IF Truthy(a) THEN a ELSE b

---------------------------------------------------------------------------
\* Inputs.

\* The number of requests whose handlers run concurrently.
NumRequests == 2

Requests == 1..NumRequests

\* The session a request's Cookie header identifies: one session per client.
Cookie(r) == r

Sessions == {Cookie(r) : r \in Requests}

\* The user whose credentials request r carries.
UserOf(r) == IF r = 1 THEN "alice" ELSE IF r = 2 THEN "bob" ELSE "carol"

\* The Principals a strategy may resolve for request r: User is any value, a
\* falsy one included.
Users(r) == {UserOf(r), ""}

\* The sessionKey option given to the constructor.
SessionKeyOptions == {Undefined, "", "token"}

DefaultSessionKey == "user"

Keys == {DefaultSessionKey, "token"}

\* Two strategy objects and their own names.
Strategies == {"A", "B"}

StrategyName(s) == IF s = "A" THEN "local" ELSE "oauth"

Names == {"local", "oauth"}

\* Per-call options: { successRedirect?, failureRedirect? }, and a sessionKey
\* property a caller may smuggle in.
CallOptions ==
  { [successRedirect |-> s, failureRedirect |-> f, sessionKey |-> k] :
      s \in {Undefined, "/dashboard"}, f \in {Undefined, "/login"},
      k \in {Undefined} }

EvilOptions ==
  { [successRedirect |-> Undefined, failureRedirect |-> Undefined, sessionKey |-> "evil"] }

EmptySession == [k \in Keys |-> Undefined]

\* The content a client's session may have when its request arrives.
InitialSessions(s) ==
  { EmptySession,
    [EmptySession EXCEPT ![DefaultSessionKey] = UserOf(s)],
    [EmptySession EXCEPT !["token"] = UserOf(s)],
    [EmptySession EXCEPT ![DefaultSessionKey] = ""] }

---------------------------------------------------------------------------
\* Map<string, Strategy>

\* Mutation of MapSet: a key that is already bound keeps its value.
MapSetKeepFirst(m, k, v) ==
  IF k \in DOMAIN m THEN m ELSE [x \in (DOMAIN m) \cup {k} |-> IF x = k THEN v ELSE m[x]]

MapSet(m, k, v) == [x \in (DOMAIN m) \cup {k} |-> IF x = k THEN v ELSE m[x]]

\* Mutation of MapDelete: deleting a bound key clears the map.
MapDeleteClear(m, k) == IF k \in DOMAIN m THEN [x \in {} |-> Undefined] ELSE m

MapDelete(m, k) == [x \in (DOMAIN m) \ {k} |-> m[x]]

MapGet(m, k) == IF k \in DOMAIN m THEN m[k] ELSE Undefined

EmptyMap == [x \in {} |-> Undefined]

---------------------------------------------------------------------------
VARIABLES
  configured,   \* options.sessionKey given to the constructor
  sessionKey,   \* this.sessionKey
  strategies,   \* this.strategies
  store,        \* the session storage: session id -> session data
  bodyUsed,     \* request -> whether the body of the original request was read
  calls,        \* request -> the call in flight on it
  lastOp        \* the last use / unuse call and what it returned

vars == <<configured, sessionKey, strategies, store, bodyUsed, calls, lastOp>>

NoResult == [kind |-> "none", value |-> Undefined]

Returned(v) == [kind |-> "return", value |-> v]

Redirect(url) == [kind |-> "redirect", value |-> url]

AuthorizationError(msg) == [kind |-> "AuthorizationError", value |-> msg]

NotFound(name) == [kind |-> "not found", value |-> name]

TypeError == [kind |-> "TypeError", value |-> "body used"]

NoOptions == [successRedirect |-> Undefined, failureRedirect |-> Undefined, sessionKey |-> Undefined]

NoRequest == [req |-> 0, clone |-> FALSE]

NoOp == [op |-> "none", strategy |-> Undefined, name |-> Undefined, returned |-> Undefined]

Idle ==
  [ op |-> "none", pc |-> "idle", name |-> Undefined, options |-> NoOptions,
    strategyObj |-> Undefined, given |-> NoRequest, cloneBodyUsed |-> FALSE,
    passed |-> NoOptions, wrote |-> FALSE, session |-> EmptySession,
    user |-> Undefined, outcome |-> NoResult, result |-> NoResult,
    invoked |-> <<>> ]

\* constructor: this.sessionKey = options.sessionKey || "user"
Constructor(option) == OrElse(option, DefaultSessionKey)

\* The Authenticator after new Authenticator(sessionStorage, options), with the
\* requests of the set live being handled.
Start(live) ==
  /\ configured \in SessionKeyOptions
  /\ sessionKey = Constructor(configured)
  /\ strategies = EmptyMap
  /\ store \in {f \in [{Cookie(r) : r \in live} -> UNION {InitialSessions(r) : r \in live}] :
                  \A r \in live : f[Cookie(r)] \in InitialSessions(Cookie(r))}
  /\ bodyUsed = [r \in live |-> FALSE]
  /\ calls = [r \in live |-> Idle]
  /\ lastOp = NoOp

\* One client, whose requests are handled one after the other.
Init == Start({1})

\* NumRequests clients, whose requests are handled concurrently.
InitConcurrent == Start(Requests)

Live == DOMAIN calls

---------------------------------------------------------------------------
\* use / unuse

\* Mutation of UseKey: the name argument is ignored.
UseKeyOwnName(strategy, name) == StrategyName(strategy)

\* name ?? strategy.name
UseKey(strategy, name) == Nullish(name, StrategyName(strategy))

\* use(strategy, name?): this.strategies.set(name ?? strategy.name, strategy)
Use(strategy, name) ==
  /\ strategies' = MapSet(strategies, UseKey(strategy, name), strategy)
  /\ lastOp' = [op |-> "use", strategy |-> strategy, name |-> name, returned |-> "this"]
  /\ UNCHANGED <<configured, sessionKey, store, bodyUsed, calls>>

\* unuse(name): this.strategies.delete(name)
Unuse(name) ==
  /\ strategies' = MapDelete(strategies, name)
  /\ lastOp' = [op |-> "unuse", strategy |-> Undefined, name |-> name, returned |-> "this"]
  /\ UNCHANGED <<configured, sessionKey, store, bodyUsed, calls>>

---------------------------------------------------------------------------
\* authenticate

\* Mutation of Lookup: an unknown name falls back to a registered strategy.
LookupOrFallback(name) ==
  IF name \in DOMAIN strategies THEN strategies[name]
  ELSE IF DOMAIN strategies # {} THEN strategies[CHOOSE k \in DOMAIN strategies : TRUE]
  ELSE Undefined

\* this.strategies.get(strategy)
Lookup(name) == MapGet(strategies, name)

\* Mutation of Clone: the strategy is handed the request itself.
NoClone(r) == [req |-> r, clone |-> FALSE]

\* request.clone(): a new Request with a body of its own.
Clone(r) == [req |-> r, clone |-> TRUE]

\* Mutation of MergeOptions: { sessionKey: this.sessionKey, ...options }
MergeOptionsCallerLast(options, key) ==
  IF options.sessionKey # Undefined THEN options ELSE [options EXCEPT !.sessionKey = key]

\* { ...options, sessionKey: this.sessionKey }
MergeOptions(options, key) == [options EXCEPT !.sessionKey = key]

\* Mutation of AuthenticateResult: an AuthorizationError becomes a redirect to
\* failureRedirect, a resolved Principal a redirect to successRedirect.
AuthenticateResultRedirecting(outcome, options) ==
  IF outcome.kind = "AuthorizationError" /\ Truthy(options.failureRedirect)
    THEN [kind |-> "redirect", value |-> options.failureRedirect]
  ELSE IF outcome.kind = "return" /\ Truthy(options.successRedirect)
    THEN [kind |-> "redirect", value |-> options.successRedirect]
  ELSE outcome

\* return strategyObj.authenticate(...): the promise of the strategy, as it is.
AuthenticateResult(outcome, options) == outcome

\* Mutation of AuthenticateStore: authenticate persists a resolved Principal.
AuthenticateStorePersisting(st, r, outcome, key) ==
  IF outcome.kind = "return"
    THEN [st EXCEPT ![r] = [x \in (DOMAIN @) \cup {key} |-> IF x = key THEN outcome.value ELSE @[x]]]
  ELSE st

\* What authenticate does to the session storage it hands to the strategy.
AuthenticateStore(st, r, outcome, key) == st

\* Mutation of AuthenticateStrategies: a strategy is consumed by its lookup.
AuthenticateStrategiesConsuming(m, name) == [x \in (DOMAIN m) \ {name} |-> m[x]]

\* What authenticate does to this.strategies: it calls get and nothing else.
AuthenticateStrategies(m, name) == m

\* The synchronous part of authenticate(strategy, request, options).
Authenticate(r, name, options) ==
  /\ calls[r].pc \in {"idle", "done"}
  /\ LET strategyObj == Lookup(name)
         call == [Idle EXCEPT !.op = "authenticate", !.name = name, !.options = options]
     IN  calls' = [calls EXCEPT ![r] =
           IF ~Truthy(strategyObj)
             THEN [call EXCEPT !.pc = "done", !.result = NotFound(name)]
           ELSE IF bodyUsed[r]
             THEN [call EXCEPT !.pc = "done", !.strategyObj = strategyObj,
                               !.result = TypeError]
           ELSE [call EXCEPT !.pc = "strategy", !.strategyObj = strategyObj,
                             !.given = Clone(r),
                             !.passed = MergeOptions(options, sessionKey),
                             !.invoked = <<strategyObj>>]]
  /\ strategies' = AuthenticateStrategies(strategies, name)
  /\ UNCHANGED <<configured, sessionKey, store, bodyUsed, lastOp>>

\* session.set(key, value) and commitSession, by a strategy.
SessionSet(data, k, v) == [x \in (DOMAIN data) \cup {k} |-> IF x = k THEN v ELSE data[x]]

\* Strategy A (a form strategy): reads the body of the request it is given.
\* Strategy B (an OAuth-like strategy): does not read the body.
ReadsBody(s) == s = "A"

\* Strategy B persists the user under options.sessionKey before it settles.
WritesSession(s, ok) == s = "B" /\ ok

\* The outcome of Strategy.authenticate(request, sessionStorage, options).
StrategyOutcome(s, user, options, ok) ==
  IF s = "A"
    THEN IF ok THEN Returned(user) ELSE AuthorizationError("invalid credentials")
  ELSE IF ok
    THEN IF Truthy(options.successRedirect) THEN Redirect(options.successRedirect)
         ELSE Returned(user)
  ELSE IF Truthy(options.failureRedirect) THEN Redirect(options.failureRedirect)
  ELSE AuthorizationError("invalid code")

\* Mutation of InvokedAfterSettle: a strategy that failed is invoked again.
InvokedAfterSettleRetrying(invoked, outcome) ==
  IF outcome.kind = "AuthorizationError" THEN invoked \o invoked ELSE invoked

\* The strategies authenticate has invoked once the promise has settled: the
\* promise is returned as it is, with no catch and no second call.
InvokedAfterSettle(invoked, outcome) == invoked

\* Mutation of SettlingStrategy: the name is looked up again at settle time.
SettlingStrategyLate(r) == MapGet(strategies, calls[r].name)

\* The strategy whose promise the call on request r awaits: the strategyObj the
\* call looked up when it started.
SettlingStrategy(r) == calls[r].strategyObj

\* The strategy invoked by authenticate settles, with the credentials of the
\* request valid (ok) or not; the promise authenticate returned settles with it.
StrategySettle(r, ok) ==
  /\ calls[r].pc = "strategy"
  /\ \E user \in Users(r) :
       LET c == calls[r]
           s == SettlingStrategy(r)
           outcome == StrategyOutcome(s, user, c.passed, ok)
           read == ReadsBody(s)
           written == IF WritesSession(s, ok)
                        THEN [store EXCEPT ![Cookie(r)] =
                                SessionSet(@, c.passed.sessionKey, user)]
                        ELSE store
       IN  /\ calls' = [calls EXCEPT ![r] =
                 [c EXCEPT !.pc = "done",
                           !.cloneBodyUsed = read /\ c.given.clone,
                           !.wrote = WritesSession(s, ok),
                           !.outcome = outcome,
                           !.invoked = InvokedAfterSettle(c.invoked, outcome),
                           !.result = AuthenticateResult(outcome, c.options)]]
           /\ bodyUsed' = IF read /\ ~c.given.clone
                            THEN [bodyUsed EXCEPT ![c.given.req] = TRUE]
                            ELSE bodyUsed
           /\ store' = AuthenticateStore(written, r, outcome, sessionKey)
  /\ UNCHANGED <<configured, sessionKey, strategies, lastOp>>

---------------------------------------------------------------------------
\* isAuthenticated

\* isAuthenticated(request, options) up to its await.
IsAuthenticated(r, options) ==
  /\ calls[r].pc \in {"idle", "done"}
  /\ calls' = [calls EXCEPT ![r] =
       [Idle EXCEPT !.op = "isAuthenticated", !.pc = "getSession", !.options = options]]
  /\ UNCHANGED <<configured, sessionKey, strategies, store, bodyUsed, lastOp>>

\* Mutation of GetSession: the session is looked up without the Cookie.
GetSessionAny(r) == store[CHOOSE s \in DOMAIN store : TRUE]

\* this.sessionStorage.getSession(request.headers.get("Cookie"))
GetSession(r) == store[Cookie(r)]

\* The session storage reads the session of the request.
GetSessionResolve(r) ==
  /\ calls[r].pc = "getSession"
  /\ calls' = [calls EXCEPT ![r] = [@ EXCEPT !.pc = "resume", !.session = GetSession(r)]]
  /\ UNCHANGED <<configured, sessionKey, strategies, store, bodyUsed, lastOp>>

\* session.get(this.sessionKey) ?? null
SessionUser(session, key) == Nullish(MapGet(session, key), Null)

\* Mutation of IsAuthenticatedResult: the call needs a registered strategy.
IsAuthenticatedResultLookingUp(user, options) ==
  IF DOMAIN strategies = {} THEN [kind |-> "not found", value |-> Undefined]
  ELSE IF user \notin {Undefined, Null, ""}
    THEN IF options.successRedirect \notin {Undefined, Null, ""}
           THEN [kind |-> "redirect", value |-> options.successRedirect]
         ELSE [kind |-> "return", value |-> user]
  ELSE IF options.failureRedirect \notin {Undefined, Null, ""}
    THEN [kind |-> "redirect", value |-> options.failureRedirect]
  ELSE [kind |-> "return", value |-> Null]

\* if (user) { if (options.successRedirect) throw redirect(...); else return user; }
\* if (options.failureRedirect) throw redirect(...); else return null;
IsAuthenticatedResult(user, options) ==
  IF Truthy(user)
    THEN IF Truthy(options.successRedirect) THEN Redirect(options.successRedirect)
         ELSE Returned(user)
  ELSE IF Truthy(options.failureRedirect) THEN Redirect(options.failureRedirect)
  ELSE Returned(Null)

\* Mutation of IsAuthenticatedStore: a Principal that was found is consumed.
IsAuthenticatedStoreConsuming(st, r, user) ==
  IF user \notin {Undefined, Null}
    THEN [st EXCEPT ![r] = [x \in DOMAIN @ |-> IF @[x] = user THEN Undefined ELSE @[x]]]
  ELSE st

\* What isAuthenticated does to the session storage.
IsAuthenticatedStore(st, r, user) == st

\* isAuthenticated after its await.
IsAuthenticatedResume(r) ==
  /\ calls[r].pc = "resume"
  /\ LET c == calls[r]
         user == SessionUser(c.session, sessionKey)
     IN  /\ calls' = [calls EXCEPT ![r] =
               [c EXCEPT !.pc = "done", !.user = user,
                         !.result = IsAuthenticatedResult(user, c.options)]]
         /\ store' = IsAuthenticatedStore(store, r, user)
  /\ UNCHANGED <<configured, sessionKey, strategies, bodyUsed, lastOp>>

---------------------------------------------------------------------------
\* The callers.

\* The handler of request r reads the body of the original request.
CallerReadBody(r) ==
  /\ ~bodyUsed[r]
  /\ bodyUsed' = [bodyUsed EXCEPT ![r] = TRUE]
  /\ UNCHANGED <<configured, sessionKey, strategies, store, calls, lastOp>>

\* The handler of request r has answered; the client's next request arrives.
NextRequest(r) ==
  /\ calls[r].pc = "done"
  /\ calls' = [calls EXCEPT ![r] = Idle]
  /\ bodyUsed' = [bodyUsed EXCEPT ![r] = FALSE]
  /\ UNCHANGED <<configured, sessionKey, strategies, store, lastOp>>

Next ==
  \/ \E s \in Strategies, name \in Names \cup {Undefined} : Use(s, name)
  \/ \E name \in Names : Unuse(name)
  \/ \E r \in Live, name \in Names, options \in CallOptions \cup EvilOptions :
       Authenticate(r, name, options)
  \/ \E r \in Live, ok \in BOOLEAN : StrategySettle(r, ok)
  \/ \E r \in Live, options \in CallOptions : IsAuthenticated(r, options)
  \/ \E r \in Live : GetSessionResolve(r)
  \/ \E r \in Live : IsAuthenticatedResume(r)
  \/ \E r \in Live : CallerReadBody(r)
  \/ \E r \in Live : NextRequest(r)

Spec == Init /\ [][Next]_vars

\* The loaders of concurrent requests, each checking its own session.
NextConcurrent ==
  \/ \E r \in Live, options \in CallOptions : IsAuthenticated(r, options)
  \/ \E r \in Live : GetSessionResolve(r)
  \/ \E r \in Live : IsAuthenticatedResume(r)
  \/ \E r \in Live : NextRequest(r)

SpecConcurrent == InitConcurrent /\ [][NextConcurrent]_vars

---------------------------------------------------------------------------
\* Vocabulary of the properties.

\* The value the session data holds at the Authenticator's Session Key.
Stored(data) == IF sessionKey \in DOMAIN data THEN data[sessionKey] ELSE Undefined

\* A Principal is present in the session data: a value is stored at the key.
Present(data) == Stored(data) \notin {Undefined, Null}

\* A redirect option is supplied.
Supplied(option) == option # Undefined

IsAuthenticatedDone(r) == calls[r].op = "isAuthenticated" /\ calls[r].pc = "done"

AuthenticateDone(r) == calls[r].op = "authenticate" /\ calls[r].pc = "done"

\* The outcome the table of isAuthenticated gives for session data and options.
TableOutcome(data, options) ==
  IF Present(data)
    THEN IF Supplied(options.successRedirect) THEN Redirect(options.successRedirect)
         ELSE Returned(Stored(data))
  ELSE IF Supplied(options.failureRedirect) THEN Redirect(options.failureRedirect)
  ELSE Returned(Null)

\* This step is the synchronous part of an authenticate call on request r.
AuthenticateStep(r) ==
  /\ calls[r].pc \in {"idle", "done"}
  /\ calls'[r] # calls[r]
  /\ calls'[r].op = "authenticate"

\* This step is a use call, an unuse call.
UseStep == lastOp'.op = "use" /\ <<strategies, lastOp>>' # <<strategies, lastOp>>

UnuseStep == lastOp'.op = "unuse" /\ <<strategies, lastOp>>' # <<strategies, lastOp>>

AtMostOneRedirect(options) ==
  ~(Supplied(options.successRedirect) /\ Supplied(options.failureRedirect))

---------------------------------------------------------------------------
\* C1: for every session record, an isAuthenticated call that supplies at most
\* one redirect option ends as the table says: Principal present and
\* successRedirect set, a redirect to successRedirect; Principal present and no
\* successRedirect, the Principal is returned; Principal absent and
\* failureRedirect set, a redirect to failureRedirect; Principal absent and no
\* failureRedirect, null is returned.
C1_TableOutcome ==
  \A r \in Live :
    (IsAuthenticatedDone(r) /\ AtMostOneRedirect(calls[r].options))
      => calls[r].result = TableOutcome(calls[r].session, calls[r].options)

\* C1, for the sessions whose Principal is a truthy value or absent: the table
\* is what isAuthenticated does.
C1_TableOutcomeTruthy ==
  \A r \in Live :
    ( /\ IsAuthenticatedDone(r)
      /\ AtMostOneRedirect(calls[r].options)
      /\ (Present(calls[r].session) => Truthy(Stored(calls[r].session))) )
      => calls[r].result = TableOutcome(calls[r].session, calls[r].options)

\* C2: authenticate with a name that is not a key of the Registry ends at once
\* with the not-found error carrying that name, whatever the request and the
\* options, and invokes no Strategy.
C2_NotFound ==
  [][ \A r \in Live :
        (AuthenticateStep(r) /\ calls'[r].name \notin DOMAIN strategies)
          => /\ calls'[r].pc = "done"
             /\ calls'[r].result = [kind |-> "not found", value |-> calls'[r].name]
             /\ calls'[r].invoked = <<>>
             /\ calls'[r].strategyObj = Undefined ]_vars

C2_Witness ==
  \E r \in Live :
    /\ AuthenticateDone(r)
    /\ calls[r].result = [kind |-> "not found", value |-> "local"]
    /\ bodyUsed[r]
    /\ DOMAIN strategies = {"oauth"}

\* C3: the outcome of authenticate on a registered name is the outcome of the
\* Strategy it invoked, unmodified: an AuthorizationError stays that error when
\* failureRedirect is supplied, a resolved Principal stays that Principal when
\* successRedirect is supplied.
C3_PassThrough ==
  \A r \in Live :
    (AuthenticateDone(r) /\ calls[r].invoked # <<>>)
      => /\ calls[r].result = calls[r].outcome
         /\ \E ok \in BOOLEAN, user \in Users(r) :
              calls[r].result =
                StrategyOutcome(calls[r].invoked[1], user,
                  [successRedirect |-> calls[r].options.successRedirect,
                   failureRedirect |-> calls[r].options.failureRedirect,
                   sessionKey |-> sessionKey], ok)

C3_Witness ==
  \E r \in Live :
    /\ AuthenticateDone(r)
    /\ calls[r].options.failureRedirect = "/login"
    /\ calls[r].result = [kind |-> "AuthorizationError", value |-> "invalid credentials"]

\* C4: use on a name that is already a key of the Registry replaces the Strategy
\* bound to it and adds no entry, and authenticate invokes the Strategy that is
\* bound to the name when it is called, and no other.
C4_Overwrite ==
  [][ /\ UseStep =>
           LET s == lastOp'.strategy
               k == IF lastOp'.name = Undefined THEN StrategyName(s) ELSE lastOp'.name
           IN  /\ DOMAIN strategies' = (DOMAIN strategies) \cup {k}
               /\ strategies'[k] = s
               /\ k \in DOMAIN strategies
                    => Cardinality(DOMAIN strategies') = Cardinality(DOMAIN strategies)
      /\ \A r \in Live :
           (AuthenticateStep(r) /\ calls'[r].name \in DOMAIN strategies /\ ~bodyUsed[r])
             => calls'[r].invoked = <<strategies[calls'[r].name]>> ]_vars

\* A call that invoked A under "local" is still in flight, "local" is bound to
\* B by now, and it is the only entry.
C4_Witness ==
  \E r \in Live :
    /\ calls[r].pc = "strategy"
    /\ calls[r].name = "local"
    /\ calls[r].invoked = <<"A">>
    /\ lastOp.op = "use" /\ lastOp.strategy = "B" /\ lastOp.name = "local"
    /\ DOMAIN strategies = {"local"}
    /\ strategies["local"] = "B"

\* C5: unuse of a name that is not a key of the Registry raises nothing and
\* changes no entry; unuse of a registered name removes that entry and no other.
C5_Unuse ==
  [][ UnuseStep =>
        /\ DOMAIN strategies' = (DOMAIN strategies) \ {lastOp'.name}
        /\ \A k \in DOMAIN strategies' : strategies'[k] = strategies[k]
        /\ lastOp'.name \notin DOMAIN strategies => strategies' = strategies
        /\ lastOp'.returned = "this"
        /\ calls' = calls ]_vars

\* The last call was unuse("local") with "local" not in the Registry, and
\* "oauth" is still bound.
C5_Witness ==
  /\ lastOp.op = "unuse" /\ lastOp.name = "local"
  /\ DOMAIN strategies = {"oauth"}
  /\ \E r \in Live : AuthenticateDone(r) /\ calls[r].result = [kind |-> "not found", value |-> "local"]

C7_RequestIndependence ==
  [][ \A r \in Live :
        (calls'[r] # calls[r] /\ calls'[r].op = "authenticate")
          => /\ bodyUsed'[r] = bodyUsed[r]
             /\ calls'[r].pc = "strategy"
                  => calls'[r].given = [req |-> r, clone |-> TRUE] ]_vars

\* The Strategy has read the body of its request and the call is over; the
\* body of the caller's request is unread.
C7_Witness ==
  \E r \in Live :
    /\ AuthenticateDone(r)
    /\ calls[r].cloneBodyUsed
    /\ ~bodyUsed[r]

\* C8: the Session Key is the configured sessionKey, or "user" when none (or
\* the empty string) is configured, in every state; it is the sessionKey of the
\* options every Strategy is invoked with, whatever the caller's options hold,
\* the key a Strategy writes under, and the key every isAuthenticated reads.
C8_SessionKey ==
  LET key == IF configured \in {Undefined, ""} THEN "user" ELSE configured
  IN  /\ sessionKey = key
      /\ \A r \in Live :
           /\ (calls[r].op = "authenticate" /\ calls[r].invoked # <<>>)
                => calls[r].passed.sessionKey = key
           /\ (AuthenticateDone(r) /\ calls[r].wrote)
                => /\ key \in DOMAIN store[Cookie(r)]
                   /\ DOMAIN store[Cookie(r)] = Keys
           /\ IsAuthenticatedDone(r)
                => calls[r].user =
                     IF calls[r].session[key] = Undefined THEN Null
                     ELSE calls[r].session[key]

\* "token" is configured, the caller's options held a sessionKey of their own,
\* and the Strategy was invoked with "token".
C8_Witness ==
  \E r \in Live :
    /\ configured = "token"
    /\ AuthenticateDone(r)
    /\ calls[r].options.sessionKey = "evil"
    /\ calls[r].passed.sessionKey = "token"
    /\ calls[r].wrote

\* C9: no step of an isAuthenticated call changes the session storage, in any
\* of its four outcomes.
C9_ReadOnly ==
  [][ \A r \in Live :
        (calls'[r] # calls[r] /\ calls'[r].op = "isAuthenticated")
          => store' = store ]_vars

\* The call has redirected to successRedirect and the Principal is still in
\* the session.
C9_Witness ==
  \E r \in Live :
    /\ IsAuthenticatedDone(r)
    /\ calls[r].result = [kind |-> "redirect", value |-> "/dashboard"]
    /\ Stored(store[Cookie(r)]) = UserOf(r)

\* C10: a step of an authenticate call in which the Strategy writes no session
\* leaves the session storage as it was, also when the Strategy resolves to a
\* Principal.
C10_NoWrite ==
  [][ \A r \in Live :
        (calls'[r] # calls[r] /\ calls'[r].op = "authenticate" /\ ~calls'[r].wrote)
          => store' = store ]_vars

\* authenticate has resolved to a Principal and the session holds none.
C10_Witness ==
  \E r \in Live :
    /\ AuthenticateDone(r)
    /\ calls[r].result = [kind |-> "return", value |-> UserOf(r)]
    /\ ~calls[r].wrote
    /\ ~Present(store[Cookie(r)])

\* C11: whatever value the session holds at the Session Key is a present
\* Principal: isAuthenticated returns null, or redirects to failureRedirect,
\* only when the session holds no value there, and with no redirect option it
\* returns the stored value, for every stored value.
C11_AnyStoredValue ==
  \A r \in Live :
    IsAuthenticatedDone(r) =>
      LET c == calls[r]
          held == Stored(c.session) \notin {Undefined, Null}
      IN  /\ c.result = [kind |-> "return", value |-> Null] => ~held
          /\ ( /\ Supplied(c.options.failureRedirect)
               /\ c.result = [kind |-> "redirect", value |-> c.options.failureRedirect] )
               => ~held
          /\ (held /\ ~Supplied(c.options.successRedirect) /\ ~Supplied(c.options.failureRedirect))
               => c.result = [kind |-> "return", value |-> Stored(c.session)]

\* C12: an isAuthenticated call with both successRedirect and failureRedirect
\* returns no value and is not rejected: it redirects to successRedirect when a
\* Principal is present in the session, to failureRedirect when none is.
C12_BothRedirects ==
  \A r \in Live :
    ( /\ IsAuthenticatedDone(r)
      /\ Supplied(calls[r].options.successRedirect)
      /\ Supplied(calls[r].options.failureRedirect) )
      => calls[r].result =
           IF Present(calls[r].session)
             THEN [kind |-> "redirect", value |-> calls[r].options.successRedirect]
             ELSE [kind |-> "redirect", value |-> calls[r].options.failureRedirect]

\* C12, as far as it holds for every session: with both options the call ends
\* in a redirect to one of the two targets, and to successRedirect exactly when
\* the stored value is truthy.
C12_BothRedirectsNoValue ==
  \A r \in Live :
    ( /\ IsAuthenticatedDone(r)
      /\ Supplied(calls[r].options.successRedirect)
      /\ Supplied(calls[r].options.failureRedirect) )
      => /\ calls[r].result.kind = "redirect"
         /\ calls[r].result.value =
              IF Stored(calls[r].session) \notin {Undefined, Null, ""}
                THEN calls[r].options.successRedirect
                ELSE calls[r].options.failureRedirect

\* C13: use changes the Registry entry at the name given, or at the name of
\* the Strategy when none is given, and no other entry; unuse changes no entry
\* but its own; authenticate reaches a Strategy only under the names it is
\* registered with, so a Strategy registered under an alias alone is not found
\* under its own name, and one registered under two names is still invoked
\* under the second after unuse of the first.
C13_OneEntry ==
  [][ /\ UseStep =>
           LET k == IF lastOp'.name = Undefined THEN StrategyName(lastOp'.strategy)
                    ELSE lastOp'.name
           IN  /\ k \in DOMAIN strategies' /\ strategies'[k] = lastOp'.strategy
               /\ \A n \in Names \ {k} :
                    /\ n \in DOMAIN strategies' <=> n \in DOMAIN strategies
                    /\ n \in DOMAIN strategies => strategies'[n] = strategies[n]
      /\ UnuseStep =>
           \A n \in Names \ {lastOp'.name} :
             /\ n \in DOMAIN strategies' <=> n \in DOMAIN strategies
             /\ n \in DOMAIN strategies => strategies'[n] = strategies[n]
      /\ \A r \in Live :
           AuthenticateStep(r) =>
             IF calls'[r].name \in DOMAIN strategies
               THEN /\ calls'[r].strategyObj = strategies[calls'[r].name]
                    /\ calls'[r].result.kind # "not found"
               ELSE calls'[r].result = [kind |-> "not found", value |-> calls'[r].name]
    ]_vars

\* A is registered under the alias "oauth" alone, and authenticate with its
\* own name "local" has ended with not-found.
C13_Witness ==
  /\ lastOp = [op |-> "use", strategy |-> "A", name |-> "oauth", returned |-> "this"]
  /\ DOMAIN strategies = {"oauth"}
  /\ strategies["oauth"] = "A"
  /\ \E r \in Live :
       /\ AuthenticateDone(r)
       /\ calls[r].result = [kind |-> "not found", value |-> "local"]

\* C14: isAuthenticated invokes no Strategy and reads no Registry entry: the
\* outcome of every call is one function of the session data it read and of its
\* options, the same for every content of the Registry, and it is never the
\* not-found error nor an AuthorizationError.
C14_NoStrategy ==
  \A r \in Live :
    calls[r].op = "isAuthenticated" =>
      /\ calls[r].invoked = <<>>
      /\ calls[r].strategyObj = Undefined
      /\ calls[r].pc = "done" =>
           LET v == Stored(calls[r].session)
               s == calls[r].options.successRedirect
               f == calls[r].options.failureRedirect
           IN  /\ calls[r].result.kind \in {"return", "redirect"}
               /\ calls[r].result =
                    IF v \notin {Undefined, Null, ""}
                      THEN IF Supplied(s) THEN [kind |-> "redirect", value |-> s]
                           ELSE [kind |-> "return", value |-> v]
                    ELSE IF Supplied(f) THEN [kind |-> "redirect", value |-> f]
                    ELSE [kind |-> "return", value |-> Null]

\* The Registry is empty and isAuthenticated has returned the Principal.
C14_Witness ==
  /\ DOMAIN strategies = {}
  /\ \E r \in Live :
       /\ IsAuthenticatedDone(r)
       /\ calls[r].result = [kind |-> "return", value |-> UserOf(r)]

\* C15: no step of an authenticate or isAuthenticated call changes the
\* Registry (or the Session Key), whatever the outcome of the call; the
\* Registry changes in use and unuse steps alone, so a call finds the
\* Authenticator as the calls before it found it.
C15_RegistryFrame ==
  [][ /\ (\E r \in Live : calls'[r] # calls[r])
           => strategies' = strategies /\ sessionKey' = sessionKey
      /\ strategies' # strategies => (UseStep \/ UnuseStep) /\ calls' = calls ]_vars

\* authenticate has ended with an AuthorizationError and the Strategy is still
\* registered, as the use before the call left it.
C15_Witness ==
  /\ lastOp = [op |-> "use", strategy |-> "A", name |-> Undefined, returned |-> "this"]
  /\ DOMAIN strategies = {"local"}
  /\ strategies["local"] = "A"
  /\ \E r \in Live :
       /\ AuthenticateDone(r)
       /\ calls[r].name = "local"
       /\ calls[r].result.kind = "AuthorizationError"

\* This step settles the authenticate call on request r.
SettleStep(r) ==
  /\ calls[r].pc = "strategy"
  /\ calls'[r] # calls[r]

\* C16: every authenticate call on a registered name has invoked the Strategy
\* bound to the name exactly once, and no other.
C16_ExactlyOnceAlways ==
  \A r \in Live :
    (calls[r].op = "authenticate" /\ calls[r].strategyObj # Undefined)
      => calls[r].invoked = <<calls[r].strategyObj>>

\* C16, amended: an authenticate call on a registered name whose request body
\* is unread invokes the Strategy bound to the name once, and no other; when
\* that Strategy settles, with an AuthorizationError or a redirect too, the call
\* is over and nothing more is invoked.  A call on a request whose body was
\* read ends in request.clone() and invokes no Strategy.
C16_ExactlyOnce ==
  [][ \A r \in Live :
        /\ (AuthenticateStep(r) /\ calls'[r].name \in DOMAIN strategies) =>
             IF bodyUsed[r]
               THEN /\ calls'[r].invoked = <<>>
                    /\ calls'[r].pc = "done"
                    /\ calls'[r].result.kind = "TypeError"
               ELSE /\ calls'[r].invoked = <<strategies[calls'[r].name]>>
                    /\ calls'[r].pc = "strategy"
        /\ SettleStep(r) =>
             /\ calls'[r].pc = "done"
             /\ calls'[r].invoked = calls[r].invoked
             /\ Len(calls'[r].invoked) = 1 ]_vars

\* A has raised an AuthorizationError, B is registered too, and A alone was
\* invoked, once.
C16_Witness ==
  /\ DOMAIN strategies = {"local", "oauth"}
  /\ strategies["oauth"] = "B"
  /\ \E r \in Live :
       /\ AuthenticateDone(r)
       /\ calls[r].name = "local"
       /\ calls[r].result.kind = "AuthorizationError"
       /\ calls[r].invoked = <<"A">>

\* C17: the Strategy of an authenticate call is the one bound to the name when
\* the call starts.  A use or unuse step changes no call in flight, and the
\* call settles with an outcome of the Strategy it invoked at its start,
\* whatever the name is bound to by then: it does not end with not-found and
\* does not switch.  A call started later gets the binding of its own start.
C17_BoundAtCall ==
  [][ /\ (UseStep \/ UnuseStep) => calls' = calls
      /\ \A r \in Live :
           /\ AuthenticateStep(r) =>
                calls'[r].strategyObj =
                  IF calls'[r].name \in DOMAIN strategies
                    THEN strategies[calls'[r].name] ELSE Undefined
           /\ SettleStep(r) =>
                /\ calls'[r].strategyObj = calls[r].strategyObj
                /\ calls[r].invoked = <<calls[r].strategyObj>>
                /\ calls'[r].result.kind # "not found"
                /\ \E ok \in BOOLEAN, user \in Users(r) :
                     /\ calls'[r].result =
                          StrategyOutcome(calls[r].strategyObj, user, calls[r].passed, ok)
                     /\ calls'[r].wrote = WritesSession(calls[r].strategyObj, ok)
                     /\ calls'[r].cloneBodyUsed = ReadsBody(calls[r].strategyObj) ]_vars

\* The call that invoked A under "local" is suspended in A, and unuse has
\* removed "local" from the Registry meanwhile.
C17_Witness ==
  /\ lastOp = [op |-> "unuse", strategy |-> Undefined, name |-> "local", returned |-> "this"]
  /\ "local" \notin DOMAIN strategies
  /\ \E r \in Live :
       /\ calls[r].op = "authenticate"
       /\ calls[r].pc = "strategy"
       /\ calls[r].name = "local"
       /\ calls[r].invoked = <<"A">>

\* What isAuthenticated with no redirect options gives for request r on the
\* session storage as this step leaves it.
FollowingIsAuthenticated(r) ==
  IsAuthenticatedResult(SessionUser(GetSession(r)', sessionKey'), NoOptions)

\* C18: for every configured Session Key, when the Strategy invoked by
\* authenticate has stored a Principal p in the session of the request under
\* the sessionKey of the options it received, isAuthenticated with no redirect
\* options on that session returns p.
C18_RoundTrip ==
  [][ \A r \in Live :
        (SettleStep(r) /\ calls'[r].wrote) =>
          \E p \in Users(r) :
            /\ store'[Cookie(r)][calls[r].passed.sessionKey] = p
            /\ FollowingIsAuthenticated(r) = [kind |-> "return", value |-> p] ]_vars

\* C18, for the truthy Principals: the round trip returns what was stored.
C18_RoundTripTruthy ==
  [][ \A r \in Live :
        (SettleStep(r) /\ calls'[r].wrote) =>
          \E p \in Users(r) :
            /\ store'[Cookie(r)][calls[r].passed.sessionKey] = p
            /\ FollowingIsAuthenticated(r) =
                 [kind |-> "return", value |-> IF p = "" THEN Null ELSE p] ]_vars

====
